---- MODULE Spec2Model ----
(***************************************************************************)
(* Model of the code execution engine of ai-code-sandbox:                  *)
(*   src/sandbox.py  CodeExecutor.execute_code                             *)
(*   src/request.py  POST /execute/ handler                                *)
(* Paths are sequences of tokens ("/" is the separator, a file extension   *)
(* is one token), the filesystem maps normalised paths to file contents,   *)
(* and a guest program is an abstract source text whose compile and run    *)
(* behaviour is fixed by CompileResult, RunResult and GuestEffect.         *)
(***************************************************************************)
EXTENDS Naturals, Sequences, FiniteSets, TLC

VARIABLES
    language_configs,  \* CodeExecutor.language_configs
    fs,                \* the filesystem: normalised path -> file content
    cwd,               \* working directory of the server process
    tmpdir,            \* tempfile.gettempdir()
    workload,          \* the requests the callers of this run may submit
    rlimit_as,         \* RLIMIT_AS of the server process
    pc,                \* per caller: position inside handler / execute_code
    request,           \* per caller: the request being served
    frame,             \* per caller: local variables of execute_code
    outcome,           \* per caller: what execute_code returned or raised
    response,          \* per caller: what the HTTP handler answered
    ghost,             \* per caller: history of the current call
    prev               \* per caller: outcome of the preceding identical call

vars == <<language_configs, fs, cwd, tmpdir, workload, rlimit_as, pc, request,
          frame, outcome, response, ghost, prev>>

env == <<language_configs, cwd, tmpdir, workload, rlimit_as>>

----------------------------------------------------------------------------
(* Values *)

None == "None"
Sep == "/"
NoPath == <<>>

Procs == {"p1", "p2"}
\* the random names tempfile can draw
NumNames == 2
Names == {"n" \o ToString(i) : i \in 1..NumNames}

Languages == {"python", "cpp", "rust", "haskell", "lean4"}
LangIds == Languages \cup {"cobol", "Python"}
Codes == {"hello", "noisy", "fail", "syntax", "loop", "cat", "rmsrc"}
Inputs == {None, "abc"}
Vias == {"direct", "http"}

\* the environments of a server: its temporary directory and working directory
\* (the server started in the temporary directory, started elsewhere, and a
\* temporary directory whose path holds the text of a file extension)
Envs == {[tmpdir |-> <<Sep, "tmp">>, cwd |-> <<Sep, "tmp">>],
         [tmpdir |-> <<Sep, "tmp">>, cwd |-> <<Sep, "app">>],
         [tmpdir |-> <<Sep, "data", Sep, ".hs">>, cwd |-> <<Sep, "data">>]}

Registry ==
    [l \in Languages |->
        CASE l = "python"  -> [file_extension |-> ".py", command |-> "python",
                               compile_command |-> None, run_command |-> <<>>]
          [] l = "cpp"     -> [file_extension |-> ".cpp", command |-> None,
                               compile_command |-> "g++", run_command |-> <<"{}">>]
          [] l = "rust"    -> [file_extension |-> ".rs", command |-> None,
                               compile_command |-> "rustc", run_command |-> <<"{}">>]
          [] l = "haskell" -> [file_extension |-> ".hs", command |-> None,
                               compile_command |-> "ghc", run_command |-> <<"{}">>]
          [] l = "lean4"   -> [file_extension |-> ".lean", command |-> None,
                               compile_command |-> "lake build",
                               run_command |-> <<"build", Sep, "bin", Sep, "{}">>]]

\* the requests of one run: every request for one language id
RequestsFor(l) ==
    [via : Vias, language : {l}, code : Codes, input_data : Inputs]

\* the requests of two concurrent direct callers of execute_code
DirectRequestsFor(l) ==
    [via : {"direct"}, language : {l}, code : Codes, input_data : {None}]

----------------------------------------------------------------------------
(* Guest programs: what the toolchain and the guest do with a source text. *)
(* Every program is deterministic; "syntax" does not compile, "fail" exits  *)
(* with code 1 and writes nothing, "loop" never ends, "cat" copies its     *)
(* input, "rmsrc" removes the source file it was compiled from.            *)

CompileResult(code) ==
    IF code = "syntax"
    THEN [returncode |-> 1, stderr |-> "syntax error"]
    ELSE [returncode |-> 0, stderr |-> ""]

RunResult(code, input_data) ==
    CASE code = "hello" -> [blocks |-> FALSE, stdout |-> "hello", stderr |-> "", returncode |-> 0]
      [] code = "noisy" -> [blocks |-> FALSE, stdout |-> "out", stderr |-> "warning", returncode |-> 0]
      [] code = "fail"  -> [blocks |-> FALSE, stdout |-> "", stderr |-> "", returncode |-> 1]
      [] code = "loop"  -> [blocks |-> TRUE, stdout |-> "", stderr |-> "", returncode |-> 0]
      [] code = "cat"   -> [blocks |-> FALSE,
                            stdout |-> IF input_data = None THEN "" ELSE input_data,
                            stderr |-> "", returncode |-> 0]
      [] code = "rmsrc" -> [blocks |-> FALSE, stdout |-> "", stderr |-> "", returncode |-> 0]
      [] OTHER          -> [blocks |-> FALSE, stdout |-> "", stderr |-> "", returncode |-> 1]

----------------------------------------------------------------------------
(* Paths and the filesystem *)

RECURSIVE Norm(_)
Norm(p) ==
    IF Len(p) <= 1 THEN p
    ELSE IF p[1] = Sep /\ p[2] = Sep THEN Norm(Tail(p))
    ELSE <<p[1]>> \o Norm(Tail(p))

LastSep(p) ==
    LET S == {i \in 1..Len(p) : p[i] = Sep}
    IN  IF S = {} THEN 0 ELSE CHOOSE i \in S : \A j \in S : j <= i

Dirname(p) ==
    IF LastSep(p) <= 1 THEN SubSeq(p, 1, LastSep(p))
    ELSE SubSeq(p, 1, LastSep(p) - 1)

Basename(p) == SubSeq(p, LastSep(p) + 1, Len(p))

Replace(p, old) == SelectSeq(p, LAMBDA t : t # old)

Join(dir, rel) == dir \o <<Sep>> \o rel

RECURSIVE Format(_, _)
Format(template, arg) ==
    IF template = <<>> THEN <<>>
    ELSE (IF Head(template) = "{}" THEN arg ELSE <<Head(template)>>)
         \o Format(Tail(template), arg)

Exists(f, p) == Norm(p) \in DOMAIN f

Write(f, p, content) ==
    [q \in DOMAIN f \cup {Norm(p)} |-> IF q = Norm(p) THEN content ELSE f[q]]

Unlink(f, p) == [q \in DOMAIN f \ {Norm(p)} |-> f[q]]

Read(f, p) == f[Norm(p)]

\* a file: the source text it holds or was built from, the caller whose call wrote
\* it, and the path of the source file it was built from
File(kind, code, by, from) == [kind |-> kind, code |-> code, by |-> by, from |-> from]

NoFile == File("none", None, None, NoPath)

\* what a running guest does to the filesystem: the program "rmsrc" removes the
\* source file it was compiled from (remove(__FILE__)), the others touch nothing
GuestEffect(f, exe) == IF exe.code = "rmsrc" THEN Unlink(f, exe.from) ELSE f

----------------------------------------------------------------------------
(* Records *)

NoOutcome == [kind |-> "none", output |-> "", error |-> "", exc |-> "", cls |-> ""]
Returns(output, error, cls) ==
    [kind |-> "return", output |-> output, error |-> error, exc |-> "", cls |-> cls]
Raises(exc) ==
    [kind |-> "raise", output |-> "", error |-> "", exc |-> exc, cls |-> "raised"]

NoResponse == [status |-> 0, output |-> "", error |-> None]

NoFrame == [temp_file_path |-> NoPath, executable |-> NoPath,
            returncode |-> 0, stderr |-> "", pend |-> NoOutcome]

\* resource.RLIM_INFINITY, and the soft limit set_memory_limit computes
RLIM_INFINITY == "RLIM_INFINITY"
MemoryCeiling == "memory_mb * 1024 * 1024"

\* how a guest process was started: the timeout subprocess.run was given and the
\* RLIMIT_AS the process has when the guest program begins
NoChild == [timeout |-> None, rlimit_as |-> None]
Child(timeout, limit) == [timeout |-> timeout, rlimit_as |-> limit]

NoCompile == [returncode |-> 0, stderr |-> "", ended |-> FALSE]

\* history of one call: the source path it was given, the path its compiler wrote,
\* the file its run stage started, how often the compile stage and the run stage
\* were entered, what the compiler returned, how the guest process was started,
\* and what the try block was about to return or raise when cleanup began
NoGhost == [source |-> NoPath, artifact |-> NoPath, ran |-> NoFile,
            compiles |-> 0, runs |-> 0, compile |-> NoCompile,
            child |-> NoChild, pipeline |-> NoOutcome]

NoRequest == [via |-> "direct", language |-> "cobol", code |-> "hello", input_data |-> None]

NoPrev == NoOutcome

Config(p) == language_configs[request[p].language]

Completed(p) ==
    \/ pc[p] = "returned" /\ request[p].via = "direct"
    \/ pc[p] = "responded"

----------------------------------------------------------------------------
\* a server that has just started: CodeExecutor.__init__ (line 10-36), no request
Idle ==
    /\ language_configs = Registry
    /\ fs = << >>
    /\ rlimit_as = RLIM_INFINITY
    /\ pc = [p \in Procs |-> "idle"]
    /\ request = [p \in Procs |-> NoRequest]
    /\ frame = [p \in Procs |-> NoFrame]
    /\ outcome = [p \in Procs |-> NoOutcome]
    /\ response = [p \in Procs |-> NoResponse]
    /\ ghost = [p \in Procs |-> NoGhost]
    /\ prev = [p \in Procs |-> NoPrev]

Init ==
    /\ Idle
    /\ \E e \in Envs : tmpdir = e.tmpdir /\ cwd = e.cwd
    /\ workload \in {RequestsFor(l) : l \in LangIds}

\* two concurrent callers of execute_code, both with requests for one language
ConcInit ==
    /\ Idle
    /\ \E e \in Envs : tmpdir = e.tmpdir /\ cwd = e.cwd
    /\ workload \in {DirectRequestsFor(l) : l \in Languages}

----------------------------------------------------------------------------
(* Arrival of requests *)

Ready(p) == pc[p] = "idle" \/ Completed(p)

Start(p, r) ==
    /\ request' = [request EXCEPT ![p] = r]
    /\ pc' = [pc EXCEPT ![p] = IF r.via = "http" THEN "handler" ELSE "entry"]
    /\ frame' = [frame EXCEPT ![p] = NoFrame]
    /\ outcome' = [outcome EXCEPT ![p] = NoOutcome]
    /\ response' = [response EXCEPT ![p] = NoResponse]
    /\ ghost' = [ghost EXCEPT ![p] = NoGhost]
    /\ UNCHANGED <<env, fs>>

\* a caller submits a request
Submit(p) ==
    /\ Ready(p)
    /\ \E r \in workload : Start(p, r)
    /\ prev' = [prev EXCEPT ![p] = NoPrev]

\* a caller whose direct call has ended submits the identical request again
Resubmit(p) ==
    /\ pc[p] = "returned"
    /\ request[p].via = "direct"
    /\ Start(p, request[p])
    /\ prev' = [prev EXCEPT ![p] = outcome[p]]

----------------------------------------------------------------------------
(* src/request.py: POST /execute/ *)

\* line 32-36 raise HTTPException(400) inside the try; line 49-53 catches every
\* Exception, HTTPException included, and raises HTTPException(500)
HandlerCheck(p) ==
    /\ pc[p] = "handler"
    /\ IF request[p].language \notin DOMAIN language_configs
       THEN /\ pc' = [pc EXCEPT ![p] = "responded"]
            /\ response' = [response EXCEPT ![p] =
                                [status |-> 500, output |-> "", error |-> None]]
       ELSE /\ pc' = [pc EXCEPT ![p] = "entry"]
            /\ UNCHANGED response
    /\ UNCHANGED <<env, fs, request, frame, outcome, ghost, prev>>

\* line 44-47 CodeResponse(...), line 49-53 except Exception
CodeResponse(result) ==
    IF result.kind = "return"
    THEN [status |-> 200, output |-> result.output,
          error |-> IF result.error # "" THEN result.error ELSE None]
    ELSE [status |-> 500, output |-> "", error |-> None]

HandlerRespond(p) ==
    /\ pc[p] = "returned"
    /\ request[p].via = "http"
    /\ pc' = [pc EXCEPT ![p] = "responded"]
    /\ response' = [response EXCEPT ![p] = CodeResponse(outcome[p])]
    /\ UNCHANGED <<env, fs, request, frame, outcome, ghost, prev>>

----------------------------------------------------------------------------
(* src/sandbox.py: CodeExecutor.execute_code *)

\* the language check placed after the temporary file is written
CheckLanguageAfterCreate(p) ==
    /\ pc[p] = "entry"
    /\ IF request[p].language \notin DOMAIN language_configs
       THEN /\ \E n \in Names :
                  LET path == tmpdir \o <<Sep, n, ".tmp">>
                  IN  /\ ~Exists(fs, path)
                      /\ fs' = Write(fs, path, File("src", request[p].code, p, path))
            /\ pc' = [pc EXCEPT ![p] = "returned"]
            /\ outcome' = [outcome EXCEPT ![p] =
                              Returns("", "unsupported language", "unsupported-language")]
       ELSE /\ pc' = [pc EXCEPT ![p] = "create"]
            /\ UNCHANGED <<outcome, fs>>
    /\ UNCHANGED <<env, request, frame, response, ghost, prev>>

\* line 61-62
CheckLanguage(p) ==
    /\ pc[p] = "entry"
    /\ IF request[p].language \notin DOMAIN language_configs
       THEN /\ pc' = [pc EXCEPT ![p] = "returned"]
            /\ outcome' = [outcome EXCEPT ![p] =
                              Returns("", "unsupported language", "unsupported-language")]
       ELSE /\ pc' = [pc EXCEPT ![p] = "create"]
            /\ UNCHANGED outcome
    /\ UNCHANGED <<env, fs, request, frame, response, ghost, prev>>

\* line 92 and line 133
Executable(temp_file_path, config) == Replace(temp_file_path, config.file_extension)

\* line 64-73: NamedTemporaryFile(suffix=..., delete=False) opens a file whose name
\* no existing file has, the code is written to it
CreateTemp(p) ==
    /\ pc[p] = "create"
    /\ \E n \in Names :
          LET path == tmpdir \o <<Sep, n, Config(p).file_extension>>
          IN  /\ ~Exists(fs, path)
              /\ fs' = Write(fs, path, File("src", request[p].code, p, path))
              /\ frame' = [frame EXCEPT ![p].temp_file_path = path]
              /\ ghost' = [ghost EXCEPT ![p].source = path]
    /\ pc' = [pc EXCEPT ![p] = "try"]
    /\ UNCHANGED <<env, request, outcome, response, prev>>

\* line 76-85: the keyword arguments of subprocess.run read the global
\* resource_limits, which no module defines: NameError, before any process exists
PyRun(p) ==
    /\ pc[p] = "try"
    /\ request[p].language = "python"
    /\ frame' = [frame EXCEPT ![p].pend = Raises("NameError")]
    /\ pc' = [pc EXCEPT ![p] = "fin_src"]
    /\ UNCHANGED <<env, fs, request, outcome, response, ghost, prev>>

\* line 92-108: the compiler process is started and execute_code waits for it
CompileSpawn(p) ==
    /\ pc[p] = "try"
    /\ request[p].language # "python"
    /\ frame' = [frame EXCEPT ![p].executable = Executable(frame[p].temp_file_path, Config(p))]
    /\ ghost' = [ghost EXCEPT ![p].compiles = @ + 1]
    /\ pc' = [pc EXCEPT ![p] = "compile"]
    /\ UNCHANGED <<env, fs, request, outcome, response, prev>>

\* where the compiler of a request writes its artifact: the -o argument (line 105),
\* or for lake build run in the directory of the source (line 97-102) the place
\* the run command of line 34 names, below that directory
CompileTarget(p) ==
    IF request[p].language = "lean4"
    THEN Join(Dirname(frame[p].temp_file_path),
              Format(Config(p).run_command, Basename(frame[p].executable)))
    ELSE frame[p].executable

\* the compiler process ends: it has read the source file and, on success,
\* written the artifact
CompileDone(p) ==
    /\ pc[p] = "compile"
    /\ LET res == IF Exists(fs, frame[p].temp_file_path)
                  THEN CompileResult(Read(fs, frame[p].temp_file_path).code)
                  ELSE [returncode |-> 1, stderr |-> "no such file"]
       IN  /\ frame' = [frame EXCEPT ![p].returncode = res.returncode,
                                     ![p].stderr = res.stderr]
           /\ IF res.returncode = 0
              THEN /\ fs' = Write(fs, CompileTarget(p),
                             File("exe", Read(fs, frame[p].temp_file_path).code, p,
                                  frame[p].temp_file_path))
                   /\ ghost' = [ghost EXCEPT ![p].artifact = CompileTarget(p),
                                             ![p].compile = [returncode |-> 0, stderr |-> "",
                                                             ended |-> TRUE]]
              ELSE /\ ghost' = [ghost EXCEPT ![p].compile =
                                    [returncode |-> res.returncode, stderr |-> res.stderr,
                                     ended |-> TRUE]]
                   /\ UNCHANGED fs
    /\ pc' = [pc EXCEPT ![p] = "compiled"]
    /\ UNCHANGED <<env, request, outcome, response, prev>>

\* a failed compile started a second time before the failure is returned
CompileFailedRetry(p) ==
    /\ pc[p] = "compiled"
    /\ frame[p].returncode # 0
    /\ IF ghost[p].compiles < 2
       THEN /\ pc' = [pc EXCEPT ![p] = "try"]
            /\ UNCHANGED frame
       ELSE /\ frame' = [frame EXCEPT ![p].pend =
                            Returns("", frame[p].stderr, "compile-failure")]
            /\ pc' = [pc EXCEPT ![p] = "fin_src"]
    /\ UNCHANGED <<env, fs, request, outcome, response, ghost, prev>>

\* the compiler's stdout returned in place of its stderr
CompileFailedStdout(p) ==
    /\ pc[p] = "compiled"
    /\ frame[p].returncode # 0
    /\ frame' = [frame EXCEPT ![p].pend = Returns("", "", "compile-failure")]
    /\ pc' = [pc EXCEPT ![p] = "fin_src"]
    /\ UNCHANGED <<env, fs, request, outcome, response, ghost, prev>>

\* line 110-111
CompileFailed(p) ==
    /\ pc[p] = "compiled"
    /\ frame[p].returncode # 0
    /\ frame' = [frame EXCEPT ![p].pend = Returns("", frame[p].stderr, "compile-failure")]
    /\ pc' = [pc EXCEPT ![p] = "fin_src"]
    /\ UNCHANGED <<env, fs, request, outcome, response, ghost, prev>>

\* line 114-118: the command is relative, the process is started in the server's
\* working directory
RunPath(p) == Join(cwd, Format(Config(p).run_command, Basename(frame[p].executable)))

\* the run stage entered whatever the compiler returned
RunSpawnUnchecked(p) ==
    /\ pc[p] = "compiled"
    /\ IF Exists(fs, RunPath(p))
       THEN /\ ghost' = [ghost EXCEPT ![p].ran = Read(fs, RunPath(p)),
                                      ![p].runs = @ + 1,
                                      ![p].child = Child(None, rlimit_as)]
            /\ pc' = [pc EXCEPT ![p] = "run"]
            /\ UNCHANGED frame
       ELSE /\ frame' = [frame EXCEPT ![p].pend = Raises("FileNotFoundError")]
            /\ ghost' = [ghost EXCEPT ![p].runs = @ + 1]
            /\ pc' = [pc EXCEPT ![p] = "fin_src"]
    /\ UNCHANGED <<env, fs, request, outcome, response, prev>>

\* the formatted run command stored back into the registry entry
RunSpawnCaching(p) ==
    /\ pc[p] = "compiled"
    /\ frame[p].returncode = 0
    /\ language_configs' = [language_configs EXCEPT ![request[p].language].run_command =
                               Format(@, Basename(frame[p].executable))]
    /\ IF Exists(fs, RunPath(p))
       THEN /\ ghost' = [ghost EXCEPT ![p].ran = Read(fs, RunPath(p)),
                                      ![p].runs = @ + 1,
                                      ![p].child = Child(None, rlimit_as)]
            /\ pc' = [pc EXCEPT ![p] = "run"]
            /\ UNCHANGED frame
       ELSE /\ frame' = [frame EXCEPT ![p].pend = Raises("FileNotFoundError")]
            /\ ghost' = [ghost EXCEPT ![p].runs = @ + 1]
            /\ pc' = [pc EXCEPT ![p] = "fin_src"]
    /\ UNCHANGED <<cwd, tmpdir, workload, rlimit_as, fs, request, outcome, response, prev>>

\* line 114-122: the artifact is started, without a timeout and without a
\* preexec_fn, so the guest inherits the limits of the server; a path that names
\* no file raises FileNotFoundError
RunSpawn(p) ==
    /\ pc[p] = "compiled"
    /\ frame[p].returncode = 0
    /\ IF Exists(fs, RunPath(p))
       THEN /\ ghost' = [ghost EXCEPT ![p].ran = Read(fs, RunPath(p)),
                                      ![p].runs = @ + 1,
                                      ![p].child = Child(None, rlimit_as)]
            /\ pc' = [pc EXCEPT ![p] = "run"]
            /\ UNCHANGED frame
       ELSE /\ frame' = [frame EXCEPT ![p].pend = Raises("FileNotFoundError")]
            /\ ghost' = [ghost EXCEPT ![p].runs = @ + 1]
            /\ pc' = [pc EXCEPT ![p] = "fin_src"]
    /\ UNCHANGED <<env, fs, request, outcome, response, prev>>

\* line 117-127: the guest ends (no timeout is passed: a guest that blocks keeps
\* execute_code waiting), its streams are returned
RunDone(p) ==
    /\ pc[p] = "run"
    /\ LET res == RunResult(ghost[p].ran.code, request[p].input_data)
       IN  /\ ~res.blocks
           /\ frame' = [frame EXCEPT ![p].pend =
                           Returns(res.stdout, res.stderr,
                                   IF res.returncode = 0 THEN "success" ELSE "runtime-failure")]
    /\ fs' = GuestEffect(fs, ghost[p].ran)
    /\ pc' = [pc EXCEPT ![p] = "fin_src"]
    /\ UNCHANGED <<env, request, outcome, response, ghost, prev>>

\* line 131: os.unlink(temp_file_path); an exception raised in the finally block
\* replaces the pending return or exception
FinUnlinkSource(p) ==
    /\ pc[p] = "fin_src"
    /\ IF Exists(fs, frame[p].temp_file_path)
       THEN /\ fs' = Unlink(fs, frame[p].temp_file_path)
            /\ IF request[p].language # "python"
               THEN /\ pc' = [pc EXCEPT ![p] = "fin_exists"]
                    /\ UNCHANGED <<outcome, frame>>
               ELSE /\ pc' = [pc EXCEPT ![p] = "returned"]
                    /\ outcome' = [outcome EXCEPT ![p] = frame[p].pend]
                    /\ frame' = [frame EXCEPT ![p] = NoFrame]
       ELSE /\ pc' = [pc EXCEPT ![p] = "returned"]
            /\ outcome' = [outcome EXCEPT ![p] = Raises("FileNotFoundError")]
            /\ frame' = [frame EXCEPT ![p] = NoFrame]
            /\ UNCHANGED fs
    /\ ghost' = [ghost EXCEPT ![p].pipeline = frame[p].pend]
    /\ UNCHANGED <<env, request, response, prev>>

\* line 132-134: executable_path is derived again, os.path.exists(executable_path)
FinExists(p) ==
    /\ pc[p] = "fin_exists"
    /\ IF Exists(fs, Executable(frame[p].temp_file_path, Config(p)))
       THEN /\ pc' = [pc EXCEPT ![p] = "fin_exe"]
            /\ UNCHANGED <<outcome, frame>>
       ELSE /\ pc' = [pc EXCEPT ![p] = "returned"]
            /\ outcome' = [outcome EXCEPT ![p] = frame[p].pend]
            /\ frame' = [frame EXCEPT ![p] = NoFrame]
    /\ UNCHANGED <<env, fs, request, response, ghost, prev>>

\* line 135: os.unlink(executable_path)
FinUnlinkExecutable(p) ==
    /\ pc[p] = "fin_exe"
    /\ LET executable_path == Executable(frame[p].temp_file_path, Config(p))
       IN  IF Exists(fs, executable_path)
           THEN /\ fs' = Unlink(fs, executable_path)
                /\ outcome' = [outcome EXCEPT ![p] = frame[p].pend]
           ELSE /\ outcome' = [outcome EXCEPT ![p] = Raises("FileNotFoundError")]
                /\ UNCHANGED fs
    /\ pc' = [pc EXCEPT ![p] = "returned"]
    /\ frame' = [frame EXCEPT ![p] = NoFrame]
    /\ UNCHANGED <<env, request, response, ghost, prev>>

----------------------------------------------------------------------------
Exec(p) ==
    \/ CheckLanguage(p)
    \/ CreateTemp(p)
    \/ PyRun(p)
    \/ CompileSpawn(p)
    \/ CompileDone(p)
    \/ CompileFailed(p)
    \/ RunSpawn(p)
    \/ RunDone(p)
    \/ FinUnlinkSource(p)
    \/ FinExists(p)
    \/ FinUnlinkExecutable(p)

\* one caller: calls follow one another
Next ==
    \/ Submit("p1")
    \/ Resubmit("p1")
    \/ HandlerCheck("p1")
    \/ HandlerRespond("p1")
    \/ Exec("p1")

Spec == Init /\ [][Next]_vars

\* the thread that serves a request keeps running: every step of the handler and
\* of execute_code that can be taken is taken (blocking, sequential code)
SpecFair ==
    /\ Spec
    /\ WF_vars(Exec("p1"))
    /\ WF_vars(HandlerCheck("p1"))
    /\ WF_vars(HandlerRespond("p1"))

\* a caller calls execute_code once
Call(p) ==
    /\ pc[p] = "idle"
    /\ \E r \in workload : Start(p, r)
    /\ UNCHANGED prev

\* two callers whose calls overlap
ConcNext == \E p \in Procs : Call(p) \/ Exec(p)

SpecConc == ConcInit /\ [][ConcNext]_vars

----------------------------------------------------------------------------
(* Properties *)

Supported(p) == request[p].language \in DOMAIN language_configs

\* execute_code has returned or raised
Ended(p) == outcome[p].kind # "none"

\* the call of p is under way
InFlight(p) == pc[p] \notin {"idle", "returned", "responded"}

\* C1: once execute_code has ended for a supported language, neither the source
\* file of the request nor the artifact its compiler wrote exists
CleanupInvariant ==
    \A p \in Procs :
        (Ended(p) /\ Supported(p)) =>
            /\ ~Exists(fs, ghost[p].source)
            /\ ghost[p].artifact # NoPath => ~Exists(fs, ghost[p].artifact)

\* C2: a call for a language id outside the registry changes no file, starts no
\* compiler and no guest, and ends by returning an empty output with the
\* unsupported-language error
UnsupportedLanguageRejected ==
    [][\A p \in Procs :
          (request'[p].language \notin DOMAIN language_configs' /\ pc'[p] # pc[p]) =>
              /\ fs' = fs
              /\ ghost'[p] = NoGhost
              /\ pc'[p] \in {"handler", "entry", "returned", "responded"}
              /\ Ended(p)' =>
                    outcome'[p] = Returns("", "unsupported language", "unsupported-language")
      ]_vars

UnsupportedWitness ==
    \E p \in Procs :
        /\ request[p].language = "cobol"
        /\ request[p].code = "hello"
        /\ pc[p] = "returned"
        /\ outcome[p].kind = "return"

\* C3: execute_code never ends by raising an exception
NoExceptionEscapes == \A p \in Procs : outcome[p].kind # "raise"

\* C4: a call for the interpreted language whose guest does not terminate ends
\* by returning an outcome classified timeout
TimeoutOutcome ==
    \A p \in Procs :
        (/\ Ended(p)
         /\ request[p].language = "python"
         /\ RunResult(request[p].code, request[p].input_data).blocks) =>
            outcome[p].kind = "return" /\ outcome[p].cls = "timeout"

\* C5: when the compiler has returned a non-zero code, the call returns an empty
\* output and the compiler's stderr as error, the run stage was never entered,
\* no artifact was written and no file is at the artifact path
CompileFailureOutcome ==
    \A p \in Procs :
        (Ended(p) /\ ghost[p].compile.ended /\ ghost[p].compile.returncode # 0) =>
            /\ outcome[p] = Returns("", ghost[p].compile.stderr, "compile-failure")
            /\ ghost[p].runs = 0
            /\ ghost[p].ran = NoFile
            /\ ghost[p].artifact = NoPath
            /\ ~Exists(fs, Executable(ghost[p].source, Config(p)))

CompileFailureWitness ==
    \E p \in Procs :
        /\ pc[p] = "returned"
        /\ request[p].language = "rust"
        /\ ghost[p].compile.ended
        /\ ghost[p].compile.returncode = 1
        /\ outcome[p].error = "syntax error"

\* C6: the run stage of a compiled language is entered only when the compiler of
\* the same call has been started once, has ended, and has returned 0
RunOnlyAfterCompile ==
    \A p \in Procs :
        (pc[p] = "run" \/ ghost[p].runs > 0 \/ ghost[p].ran # NoFile) =>
            /\ request[p].language # "python"
            /\ ghost[p].compiles = 1
            /\ ghost[p].compile.ended
            /\ ghost[p].compile.returncode = 0
            /\ pc[p] # "compile"

RunWitness ==
    \E p \in Procs :
        /\ pc[p] = "run"
        /\ request[p].language = "cpp"
        /\ ghost[p].ran.code = "hello"

\* C7: for every supported language, the request whose program prints the
\* literal "hello" and exits 0 is answered with output "hello" and no error
HelloDelivered ==
    \A p \in Procs :
        (pc[p] = "responded" /\ Supported(p) /\ request[p].code = "hello") =>
            response[p] = [status |-> 200, output |-> "hello", error |-> None]

\* C8: in every answer built from an outcome, output is the captured stdout and
\* the error is present exactly when the classification is not success or the
\* captured stderr is not empty
ErrorFieldRule ==
    \A p \in Procs :
        (pc[p] = "responded" /\ outcome[p].kind = "return") =>
            /\ response[p].output = outcome[p].output
            /\ response[p].error # None <=>
                   (outcome[p].cls # "success" \/ outcome[p].error # "")

\* C9: two overlapping calls for one language with different source texts use
\* different source and artifact paths, each guest that runs is the caller's own
\* program, each returned output is its stdout, and no step of one call
\* overwrites or removes a file written by the other call while that is under way
DistinctPaths ==
    \A p, q \in Procs :
        (/\ p # q /\ InFlight(p) /\ InFlight(q)
         /\ request[p].code # request[q].code
         /\ ghost[p].source # NoPath /\ ghost[q].source # NoPath) =>
            /\ ghost[p].source # ghost[q].source
            /\ Executable(ghost[p].source, Config(p)) # Executable(ghost[q].source, Config(q))

OwnProgram ==
    \A p \in Procs :
        /\ ghost[p].ran # NoFile =>
              ghost[p].ran.by = p /\ ghost[p].ran.code = request[p].code
        /\ (Ended(p) /\ outcome[p].cls \in {"success", "runtime-failure"}) =>
              outcome[p].output = RunResult(request[p].code, request[p].input_data).stdout

NoForeignTouch ==
    \A p, q \in Procs : \A path \in DOMAIN fs :
        (/\ p # q
         /\ pc'[p] # pc[p]
         /\ fs[path].by = q /\ InFlight(q)
         /\ request[p].code # request[q].code) =>
            (path \in DOMAIN fs' /\ fs'[path] = fs[path])

Isolation == [](DistinctPaths /\ OwnProgram) /\ [][NoForeignTouch]_vars

\* C10: a call that repeats the preceding call's request ends the same way, with
\* the same classification and the same output
Idempotent ==
    \A p \in Procs :
        (Ended(p) /\ prev[p] # NoPrev) =>
            /\ outcome[p].kind = prev[p].kind
            /\ outcome[p].cls = prev[p].cls
            /\ outcome[p].output = prev[p].output

IdempotentWitness ==
    \E p \in Procs :
        /\ Ended(p)
        /\ prev[p] # NoPrev
        /\ outcome[p].cls = "success"
        /\ outcome[p].output = "hello"

\* C11: within one call the compile stage is entered at most once and the run
\* stage is entered at most once, and a call that has ended after a failed
\* compile or after its guest ran has entered them exactly that often
NoStageRetried ==
    \A p \in Procs :
        /\ ghost[p].compiles <= 1
        /\ ghost[p].runs <= 1
        /\ (Ended(p) /\ outcome[p].cls = "compile-failure") =>
              ghost[p].compiles = 1 /\ ghost[p].runs = 0
        /\ (Ended(p) /\ outcome[p].cls \in {"success", "runtime-failure"}) =>
              ghost[p].compiles = 1 /\ ghost[p].runs = 1

NoStageRetriedWitness ==
    \E p \in Procs :
        /\ Ended(p)
        /\ outcome[p].cls = "runtime-failure"
        /\ ghost[p].compiles = 1
        /\ ghost[p].runs = 1

\* the stage of the state machine a call is in
Stage(p) ==
    CASE pc[p] = "create" -> "Created"
      [] pc[p] = "try" -> "SourceWritten"
      [] pc[p] = "compile" -> "Compiling"
      [] pc[p] = "compiled" /\ frame[p].returncode = 0 -> "Compiled"
      [] pc[p] = "compiled" /\ frame[p].returncode # 0 -> "CompileFailed"
      [] pc[p] = "run" -> "Running"
      [] pc[p] \in {"fin_src", "fin_exists", "fin_exe"} -> "Cleaning"
      [] pc[p] = "returned" /\ Supported(p) -> "Cleaned"
      [] OTHER -> "-"

\* no process is started before the source is written
SourceBeforeSpawn ==
    \A p \in Procs :
        (ghost[p].compiles > 0 \/ ghost[p].runs > 0) => ghost[p].source # NoPath

\* cleanup begins only after a failed compile or after the guest has run
CleanedOnlyFrom ==
    \A p \in Procs :
        (Stage(p)' = "Cleaning" /\ Stage(p) # "Cleaning") =>
            \/ Stage(p) = "CompileFailed"
            \/ Stage(p) = "Running"

\* a call that has created its workspace ends in Cleaned
EventuallyCleaned ==
    \A p \in Procs : (Stage(p) = "Created") ~> (Stage(p) = "Cleaned")

\* C12: a request for a supported language goes Created, SourceWritten, then
\* either a compile stage or none, Running, Ran, Cleaned: no process is started
\* before the source is written, cleanup begins only from CompileFailed or from
\* the end of the run, and every request eventually reaches Cleaned
StateMachine ==
    /\ []SourceBeforeSpawn
    /\ [][CleanedOnlyFrom]_vars
    /\ EventuallyCleaned

\* every guest process is started with a timeout and with the memory ceiling
GovernedChild ==
    \A p \in Procs :
        ghost[p].ran # NoFile =>
            /\ ghost[p].child.timeout # None
            /\ ghost[p].child.rlimit_as = MemoryCeiling

\* C13: every guest the run stage starts, interpreted or compiled, is started
\* with the timeout and with the memory ceiling, and no call stays in the run
\* stage for ever
GovernedRun ==
    /\ []GovernedChild
    /\ \A p \in Procs : (pc[p] = "run") ~> (pc[p] # "run")

\* C14: whatever cleanup finds on the filesystem, a call ends with the outcome
\* its try block had produced when cleanup began; a file that is already missing
\* does not replace that outcome by an exception
CleanupSwallowsMissing ==
    \A p \in Procs :
        (Ended(p) /\ ghost[p].pipeline.kind = "return") => outcome[p] = ghost[p].pipeline

\* C15: the file the run command names, resolved against the directory the guest
\* is started in, is the file the compiler of the same call wrote
RunsOwnArtifact ==
    \A p \in Procs :
        (pc[p] = "compiled" /\ frame[p].returncode = 0) =>
            Norm(RunPath(p)) = Norm(ghost[p].artifact)

\* C16: the artifact path is the source path without its last component, the
\* file extension, and nothing else changed, and the path cleanup tests and
\* removes is the path the compiler was given as its output
ArtifactPathDerived ==
    \A p \in Procs :
        frame[p].executable # NoPath =>
            /\ frame[p].executable =
                   SubSeq(frame[p].temp_file_path, 1, Len(frame[p].temp_file_path) - 1)
            /\ request[p].language # "lean4" =>
                   Executable(frame[p].temp_file_path, Config(p)) = CompileTarget(p)

\* C17: the limits of the server process stay as they were, and the guest of a
\* call that has run was started with the memory ceiling set on its own process
\* before its program began
CeilingOnChildOnly ==
    /\ rlimit_as = RLIM_INFINITY
    /\ \A p \in Procs :
           (Ended(p) /\ Supported(p) /\ ghost[p].compile.returncode = 0) =>
               ghost[p].child.rlimit_as = MemoryCeiling

\* C18: the handler answers a request for a language outside the registry with
\* status 400 and without calling execute_code; status 500 is answered only when
\* execute_code was called and failed
UnsupportedIs400 ==
    \A p \in Procs :
        pc[p] = "responded" =>
            /\ ~Supported(p) => response[p].status = 400 /\ ~Ended(p)
            /\ response[p].status = 500 => Supported(p) /\ outcome[p].kind = "raise"

====
